---- MODULE Spec2Model ----
(***************************************************************************)
(* Model of scrape_the_web_agentically.py: main() loads the settings,     *)
(* builds the LangGraph state graph                                       *)
(*   START -> initialize_state -> scrape_manager -> scraper | evaluate,   *)
(*   scraper -> evaluate, evaluate -> scrape_manager | END                 *)
(* (compiled with interrupt_after = ["evaluate"], no checkpointer),       *)
(* streams it once and reports what its extraction tracker collected.     *)
(*                                                                         *)
(* Python values: an Optional value is a sequence of length <= 1 (None is  *)
(* <<>>); a dict is a record [keys, vals] of the keys it has and of the   *)
(* phrases that occur in the text of its values; a string under a          *)
(* substring test is the set of the phrases that occur in it.              *)
(***************************************************************************)
EXTENDS Integers, Sequences, FiniteSets, TLC

VARIABLES
    pc,                 \* position of main(): which step runs next
    env_key,            \* OPENAI_API_KEY in the environment / .env file
    urls,               \* main()'s argument urls (a string or a list)
    keyword,            \* main()'s argument keyword
    settings,           \* Optional Settings returned by load_settings
    graph,              \* Optional compiled graph returned by create_graph
    state,              \* the graph's channels: OverallState, merged
    event,              \* the last (key, value) event graph.stream yielded
    extraction_tracker, \* main()'s extraction_tracker dict
    route,              \* last label returned by the conditional edge run
    next_node,          \* node the last conditional edge scheduled
    status,             \* the stream loop's status
    dispatched,         \* seeds of the scraper instances of the last batch
    extractor,          \* what the last SmartScraperGraph call did
    executed,           \* names of the nodes run so far, in order
    scraped,            \* the updates the scraper instances returned so far
    report              \* Optional final summary logged by main()

vars == <<pc, env_key, urls, keyword, settings, graph, state, event,
          extraction_tracker, route, next_node, status, dispatched,
          extractor, executed, scraped, report>>

----------------------------------------------------------------------------
(* Bounds of the model *)

MaxUrls == 3

URLS == {"a.example", "b.example"}

UrlLists == UNION {[1..n -> URLS] : n \in 0..MaxUrls}

----------------------------------------------------------------------------
(* Python values *)

None == <<>>

Some(x) == <<x>>

Unset == "<unset>"

EnvKeys == {Unset, "", "sk-test"}

DefaultUrl == "https://python.langchain.com"

DefaultKeyword == "How to track token usage for LLMs"

Keywords == {"", "foo", "Foo", "values"}

\* main()'s urls argument: a list of URLs, or one bare string (v holds it)
UrlInputs ==
    {[t |-> "list", v |-> l] : l \in UrlLists}
        \cup {[t |-> "str", v |-> <<u>>] : u \in {"", "a.example"}}

\* a key the caller left out of the input dict
Absent == "<absent>"

AbsentUrls == [t |-> "absent", v |-> <<>>]

EmptyList == [t |-> "list", v |-> <<>>]

\* the raw input dict of the graph: an absent value leaves its key out
InputDict(u, k) ==
    [x \in (IF u.t = "absent" THEN {} ELSE {"urls"})
              \cup (IF k = Absent THEN {} ELSE {"keyword"}) |->
        IF x = "urls" THEN u ELSE k]

\* dict.get(key, default)
Get(d, key, default) == IF key \in DOMAIN d THEN d[key] ELSE default

\* str.lower()
Lower(s) ==
    CASE s = "Foo" -> "foo"
      [] s = "Not Relevant" -> "not relevant"
      [] s = DefaultKeyword -> "how to track token usage for llms"
      [] OTHER -> s

\* str(result.values()): the text "dict_values([...])" around the values
StrValues(d) == {"dict_values", "values"} \cup d.vals

\* truth value of an Optional dict: None and {} are falsy
Truthy(o) == o # None /\ o[1].keys # {}

\* what SmartScraperGraph(...).run() can do for one URL
ExtractorOutcomes ==
    { [kind |-> "raise", keys |-> {},         vals |-> {"boom"}],
      [kind |-> "str",   keys |-> {},         vals |-> {"foo"}],
      [kind |-> "dict",  keys |-> {},         vals |-> {}],
      [kind |-> "dict",  keys |-> {"answer"}, vals |-> {}],
      [kind |-> "dict",  keys |-> {"answer"}, vals |-> {"Foo"}],
      [kind |-> "dict",  keys |-> {"answer"}, vals |-> {"foo", "not mentioned"}],
      [kind |-> "dict",  keys |-> {"answer"}, vals |-> {"foo", "Not Relevant"}] }

\* the scraper returned before it built a SmartScraperGraph
NotCalled == [kind |-> "not_called", keys |-> {}, vals |-> {}]

LowerAll(S) == {Lower(p) : p \in S}

----------------------------------------------------------------------------
(* Reducers and state merge *)

\* a reducer that never takes a written value
first_non_null_current(a, b) == a

\* a reducer that keeps the last value written
first_non_null_last(a, b) == b

first_non_null(a, b) == IF a # None THEN a ELSE b

\* a reducer that toggles instead of accumulating
or_toggle(a, b) == a # b

or_(a, b) == a \/ b

\* the reducer OverallState annotates channel k with; plain channels keep
\* the last value written
Reduce(k, a, b) ==
    CASE k = "extracted_info" -> first_non_null(a, b)
      [] k = "extracted_from_url" -> first_non_null(a, b)
      [] k = "is_information_found" -> or_(a, b)
      [] OTHER -> b

\* apply a node's update to the channels; a channel that has no value yet
\* takes the written value as it is
Merge(s, u) ==
    [k \in DOMAIN s \cup DOMAIN u |->
        IF k \notin DOMAIN u THEN s[k]
        ELSE IF k \notin DOMAIN s THEN u[k]
        ELSE Reduce(k, s[k], u[k])]

----------------------------------------------------------------------------
(* Nodes *)

\* a Settings whose key is optional: a missing key loads as the empty string
load_settings_optional(env) ==
    Some([openai_api_key |-> IF env = Unset THEN "" ELSE env])

load_settings(env) ==
    IF env = Unset THEN None ELSE Some([openai_api_key |-> env])

\* total_urls counted on the raw input, before the default URL is put in
initialize_state_raw_total(in) ==
    LET urls0 == Get(in, "urls", EmptyList)
        empty == IF urls0.t = "str" THEN urls0.v[1] = "" ELSE urls0.v = <<>>
        urls1 == IF empty THEN [t |-> "list", v |-> <<DefaultUrl>>] ELSE urls0
        kw0 == Get(in, "keyword", "")
        kw == IF kw0 = "" THEN DefaultKeyword ELSE kw0
        initial_urls == urls1.v
    IN  [initial_urls |-> initial_urls,
         current_url_index |-> 0,
         total_urls |-> IF empty THEN 0 ELSE Len(urls0.v),
         urls_to_scrape |-> initial_urls,
         keyword |-> kw,
         extracted_info |-> None,
         extracted_from_url |-> None,
         is_information_found |-> FALSE]

\* the work queue started at the second URL
initialize_state_skip_first(in) ==
    LET urls0 == Get(in, "urls", EmptyList)
        empty == IF urls0.t = "str" THEN urls0.v[1] = "" ELSE urls0.v = <<>>
        urls1 == IF empty THEN [t |-> "list", v |-> <<DefaultUrl>>] ELSE urls0
        kw0 == Get(in, "keyword", "")
        kw == IF kw0 = "" THEN DefaultKeyword ELSE kw0
        initial_urls == urls1.v
    IN  [initial_urls |-> initial_urls,
         current_url_index |-> 0,
         total_urls |-> Len(initial_urls),
         urls_to_scrape |-> Tail(initial_urls),
         keyword |-> kw,
         extracted_info |-> None,
         extracted_from_url |-> None,
         is_information_found |-> FALSE]

\* extracted_info started as an empty record instead of None
initialize_state_empty_info(in) ==
    LET urls0 == Get(in, "urls", EmptyList)
        empty == IF urls0.t = "str" THEN urls0.v[1] = "" ELSE urls0.v = <<>>
        urls1 == IF empty THEN [t |-> "list", v |-> <<DefaultUrl>>] ELSE urls0
        kw0 == Get(in, "keyword", "")
        kw == IF kw0 = "" THEN DefaultKeyword ELSE kw0
        initial_urls == urls1.v
    IN  [initial_urls |-> initial_urls,
         current_url_index |-> 0,
         total_urls |-> Len(initial_urls),
         urls_to_scrape |-> initial_urls,
         keyword |-> kw,
         extracted_info |-> Some([keys |-> {}, vals |-> {}]),
         extracted_from_url |-> None,
         is_information_found |-> FALSE]

\* the keyword default left out
initialize_state_no_keyword_default(in) ==
    LET urls0 == Get(in, "urls", EmptyList)
        empty == IF urls0.t = "str" THEN urls0.v[1] = "" ELSE urls0.v = <<>>
        urls1 == IF empty THEN [t |-> "list", v |-> <<DefaultUrl>>] ELSE urls0
        kw == Get(in, "keyword", "")
        initial_urls == urls1.v
    IN  [initial_urls |-> initial_urls,
         current_url_index |-> 0,
         total_urls |-> Len(initial_urls),
         urls_to_scrape |-> initial_urls,
         keyword |-> kw,
         extracted_info |-> None,
         extracted_from_url |-> None,
         is_information_found |-> FALSE]

initialize_state(in) ==
    LET urls0 == Get(in, "urls", EmptyList)
        empty == IF urls0.t = "str" THEN urls0.v[1] = "" ELSE urls0.v = <<>>
        urls1 == IF empty THEN [t |-> "list", v |-> <<DefaultUrl>>] ELSE urls0
        kw0 == Get(in, "keyword", "")
        kw == IF kw0 = "" THEN DefaultKeyword ELSE kw0
        initial_urls == urls1.v
    IN  [initial_urls |-> initial_urls,
         current_url_index |-> 0,
         total_urls |-> Len(initial_urls),
         urls_to_scrape |-> initial_urls,
         keyword |-> kw,
         extracted_info |-> None,
         extracted_from_url |-> None,
         is_information_found |-> FALSE]

\* a manager that takes the head of the queue off itself
scrape_manager_pop(s) ==
    IF s.urls_to_scrape = <<>> THEN s
    ELSE [s EXCEPT !["urls_to_scrape"] = Tail(@)]

scrape_manager(s) == s

send_to_scraper(s) ==
    [i \in 1..Len(s.urls_to_scrape) |->
        [url |-> s.urls_to_scrape[i], keyword |-> s.keyword]]

\* an edge that always goes to the scraper
route_after_manager_always_scraper(s) == "scraper"

\* the conditional edge after scrape_manager
route_after_manager(s) ==
    IF s.urls_to_scrape # <<>> THEN "scraper" ELSE "evaluate"

\* whether the scraper node reaches the SmartScraperGraph call
extractor_called(s, config) ==
    s.urls_to_scrape # <<>> /\ config.openai_api_key # ""

relevant(kw, d) ==
    LET summary == LowerAll(StrValues(d))
    IN  /\ Lower(kw) \in summary
        /\ "not mentioned" \notin summary
        /\ "not relevant" \notin summary

\* an except branch that logs the error and keeps no record of it
extracted_data_unrecorded(out) ==
    CASE out.kind = "dict" -> [keys |-> out.keys, vals |-> out.vals]
      [] out.kind = "raise" -> [keys |-> {}, vals |-> {}]
      [] OTHER -> [keys |-> {"raw_output"}, vals |-> out.vals]

\* the try/except around the SmartScraperGraph run: the record the node
\* keeps for each outcome
extracted_data(out) ==
    CASE out.kind = "dict" -> [keys |-> out.keys, vals |-> out.vals]
      [] out.kind = "raise" -> [keys |-> {"error"}, vals |-> out.vals]
      [] OTHER -> [keys |-> {"raw_output"}, vals |-> out.vals]

scraper(s, config, out) ==
    IF s.urls_to_scrape = <<>> THEN
        [extracted_info |-> None,
         extracted_from_url |-> None,
         is_information_found |-> FALSE,
         urls_to_scrape |-> <<>>]
    ELSE
        LET url == Head(s.urls_to_scrape)
            remaining_urls == Tail(s.urls_to_scrape)
        IN  IF config.openai_api_key = "" THEN
                [extracted_info |-> None,
                 extracted_from_url |-> Some(url),
                 is_information_found |-> FALSE]
            ELSE
                LET information_found ==
                        out.kind = "dict" /\ relevant(s.keyword, out)
                IN  [extracted_info |-> Some(extracted_data(out)),
                     extracted_from_url |-> Some(url),
                     is_information_found |-> information_found,
                     urls_to_scrape |-> remaining_urls]

\* the found branch left out
evaluate_false(s) == [is_information_found |-> FALSE]

evaluate(s) ==
    IF s.is_information_found
    THEN [is_information_found |-> TRUE]
    ELSE [is_information_found |-> FALSE]

\* the two tests in the other order: remaining URLs win over found
should_continue_scraping_index_first(s) ==
    IF s.current_url_index < s.total_urls THEN "continue_scraping"
    ELSE "end_process"

should_continue_scraping(s) ==
    IF s.is_information_found THEN "end_process"
    ELSE IF s.current_url_index < s.total_urls THEN "continue_scraping"
    ELSE "end_process"

END == "__end__"

\* the path map of the conditional edge after evaluate
evaluate_paths(label) ==
    IF label = "continue_scraping" THEN "scrape_manager" ELSE END

\* builder.compile(checkpointer=None, interrupt_after=["evaluate"])
interrupt_after == {"evaluate"}

\* main()'s handling of one stream event
track(tracker, key, value) ==
    IF key = "scraper" /\ value.is_information_found
    THEN [found_information |-> TRUE,
          extracted_info |-> value.extracted_info,
          source_url |-> value.extracted_from_url]
    ELSE tracker

\* the summary main() logs after the stream
final_report(tracker) ==
    IF tracker.found_information /\ Truthy(tracker.extracted_info)
    THEN [found |-> TRUE, source_url |-> tracker.source_url,
          info |-> tracker.extracted_info]
    ELSE IF Truthy(tracker.extracted_info)
    THEN [found |-> FALSE, source_url |-> tracker.source_url,
          info |-> tracker.extracted_info]
    ELSE [found |-> FALSE, source_url |-> None, info |-> None]

----------------------------------------------------------------------------
(* The program *)

NoEvent == [key |-> "none", value |-> <<>>]

Init ==
    /\ pc = "load_settings"
    /\ env_key \in EnvKeys
    /\ urls \in UrlInputs
    /\ keyword \in Keywords
    /\ settings = None
    /\ graph = None
    /\ state = <<>>
    /\ event = NoEvent
    /\ extraction_tracker = [found_information |-> FALSE,
                             extracted_info |-> None,
                             source_url |-> None]
    /\ route = "none"
    /\ next_node = "none"
    /\ status = "pending"
    /\ dispatched = <<>>
    /\ extractor = "not_called"
    /\ executed = <<>>
    /\ scraped = <<>>
    /\ report = None

\* main: settings = load_settings(); a ValueError makes main return
LoadSettings ==
    /\ pc = "load_settings"
    /\ settings' = load_settings(env_key)
    /\ pc' = IF settings' = None THEN "returned" ELSE "create_graph"
    /\ UNCHANGED <<env_key, urls, keyword, graph, state, event,
                   extraction_tracker, route, next_node, status, dispatched,
                   extractor, executed, scraped, report>>

\* main: graph = create_graph(settings)
CreateGraph ==
    /\ pc = "create_graph"
    /\ graph' = Some([interrupt_after |-> interrupt_after])
    /\ next_node' = "initialize_state"
    /\ pc' = "stream"
    /\ UNCHANGED <<env_key, urls, keyword, settings, state, event,
                   extraction_tracker, route, status, dispatched,
                   extractor, executed, scraped, report>>

\* one node has run: merge its update, hand the event to main's loop body
Step(node, update) ==
    /\ state' = Merge(state, update)
    /\ event' = [key |-> node, value |-> update]
    /\ extraction_tracker' = track(extraction_tracker, node, update)
    /\ executed' = Append(executed, node)
    /\ scraped' = IF node = "scraper" THEN Append(scraped, update) ELSE scraped

\* graph.stream(inputs): START -> initialize_state -> scrape_manager
InitializeState ==
    /\ pc = "stream"
    /\ next_node = "initialize_state"
    /\ LET url_list == [t |-> "list", v |-> urls.v]
           inputs == [urls |-> url_list, keyword |-> keyword]
       IN  Step("initialize_state", initialize_state(inputs))
    /\ next_node' = "scrape_manager"
    /\ status' = "running"
    /\ UNCHANGED <<pc, env_key, urls, keyword, settings, graph, route,
                   dispatched, extractor, report>>

ScrapeManager ==
    /\ pc = "stream"
    /\ next_node = "scrape_manager"
    /\ Step("scrape_manager", scrape_manager(state))
    /\ next_node' = route_after_manager(state')
    /\ dispatched' =
          IF next_node' = "scraper" /\ state'.urls_to_scrape # <<>>
          THEN <<[url |-> Head(state'.urls_to_scrape),
                  keyword |-> state'.keyword]>>
          ELSE <<>>
    /\ UNCHANGED <<pc, env_key, urls, keyword, settings, graph, route,
                   status, extractor, report>>

Scraper ==
    /\ pc = "stream"
    /\ next_node = "scraper"
    /\ \E out \in IF extractor_called(state, settings[1])
                   THEN ExtractorOutcomes ELSE {NotCalled} :
          /\ extractor' = out.kind
          /\ Step("scraper", scraper(state, settings[1], out))
    /\ next_node' = "evaluate"
    /\ UNCHANGED <<pc, env_key, urls, keyword, settings, graph, route,
                   status, dispatched, report>>

Evaluate ==
    /\ pc = "stream"
    /\ next_node = "evaluate"
    /\ Step("evaluate", evaluate(state))
    /\ route' = should_continue_scraping(state')
    /\ next_node' = evaluate_paths(route')
    /\ status' = IF "evaluate" \in graph[1].interrupt_after
                 THEN "interrupt_after"
                 ELSE IF next_node' = END THEN "done" ELSE "running"
    /\ pc' = IF status' = "running" THEN "stream" ELSE "report"
    /\ UNCHANGED <<env_key, urls, keyword, settings, graph, dispatched,
                   extractor, report>>

\* main: the summary after the stream loop
Report ==
    /\ pc = "report"
    /\ report' = Some(final_report(extraction_tracker))
    /\ pc' = "returned"
    /\ UNCHANGED <<env_key, urls, keyword, settings, graph, state, event,
                   extraction_tracker, route, next_node, status, dispatched,
                   extractor, executed, scraped>>

Next ==
    \/ LoadSettings
    \/ CreateGraph
    \/ InitializeState
    \/ ScrapeManager
    \/ Scraper
    \/ Evaluate
    \/ Report

Spec == Init /\ [][Next]_vars

----------------------------------------------------------------------------
(* initialize_state on its own: the node applied to every raw input dict,  *)
(* urls and keyword being the values the caller hands to the graph         *)

InitInputs ==
    /\ pc = "call"
    /\ env_key = "sk-test"
    /\ urls \in UrlInputs \cup {AbsentUrls}
    /\ keyword \in Keywords \cup {Absent}
    /\ settings = None
    /\ graph = None
    /\ state = <<>>
    /\ event = NoEvent
    /\ extraction_tracker = [found_information |-> FALSE,
                             extracted_info |-> None,
                             source_url |-> None]
    /\ route = "none"
    /\ next_node = "initialize_state"
    /\ status = "pending"
    /\ dispatched = <<>>
    /\ extractor = "not_called"
    /\ executed = <<>>
    /\ scraped = <<>>
    /\ report = None

CallInitializeState ==
    /\ pc = "call"
    /\ Step("initialize_state", initialize_state(InputDict(urls, keyword)))
    /\ pc' = "called"
    /\ UNCHANGED <<env_key, urls, keyword, settings, graph, route, next_node,
                   status, dispatched, extractor, report>>

SpecInit == InitInputs /\ [][CallInitializeState]_vars

----------------------------------------------------------------------------
(* Properties *)

Initialized == "is_information_found" \in DOMAIN state

Found == Initialized /\ state.is_information_found

GraphStopped == status \in {"interrupt_after", "done"}

\* the scraper instances of the run that returned is_information_found = True
FoundTasks == {i \in DOMAIN scraped : scraped[i].is_information_found}

\* C1: when no scraper task reports found and the queue is used up, the run
\* stops at the end marker: the conditional edge after evaluate returns
\* end_process and END is the node it schedules.
C1_ExhaustionReachesEnd ==
    (GraphStopped /\ ~Found /\ state.urls_to_scrape = <<>>)
        => (route = "end_process" /\ next_node = END /\ status = "done")

\* C2: once evaluate has run on a State with is_information_found true, the
\* conditional edge has answered end_process, END is the scheduled node and
\* no further node (no scraper in particular) runs, however many URLs remain.
C2_EarlyStop ==
    [][(event.key = "evaluate" /\ Found)
          => (route = "end_process" /\ next_node = END
              /\ executed' = executed /\ scraped' = scraped)]_vars

C2_Witness ==
    /\ event.key = "evaluate" /\ Found
    /\ Len(state.urls_to_scrape) >= 2
    /\ report # None

\* C3: the final report says found exactly when some scraper task returned
\* is_information_found = True, then with that task's URL and record; with
\* no such task it has found = false, null record and null source URL.
C3_ReportFaithful ==
    report # None =>
        /\ report[1].found <=> FoundTasks # {}
        /\ report[1].found =>
              \E i \in FoundTasks :
                  /\ report[1].source_url = scraped[i].extracted_from_url
                  /\ report[1].info = scraped[i].extracted_info
        /\ FoundTasks = {} =>
              (report[1].source_url = None /\ report[1].info = None)

\* C4: is_information_found never goes from true back to false in the merged
\* State, whatever the next node writes.
C4_FoundMonotone == [][Found => Found']_vars

C4_Witness == Found /\ event.key = "evaluate"

\* C5: when the SmartScraperGraph call raises, the scraper node still
\* returns: extracted_info is the error payload {error: message},
\* is_information_found is false, and evaluate is the next node to run.
C5_FaultContained ==
    (event.key = "scraper" /\ extractor = "raise") =>
        /\ event.value.extracted_info
              = Some([keys |-> {"error"}, vals |-> {"boom"}])
        /\ event.value.is_information_found = FALSE
        /\ next_node = "evaluate"
        /\ status = "running"

C5_Witness == event.key = "scraper" /\ extractor = "raise"

\* C6: after scrape_manager, the scraper instances dispatched are one per
\* entry of urls_to_scrape, each seeded with that entry and State.keyword
\* (none when the queue is empty).
C6_FanOutWholeQueue ==
    event.key = "scrape_manager" => dispatched = send_to_scraper(state)

\* C7: extracted_info and extracted_from_url are both null or both set.
C7_SetTogether ==
    Initialized =>
        (state.extracted_info = None <=> state.extracted_from_url = None)

\* C8: the queue is never longer than total_urls, and total_urls is the
\* length of initial_urls.
C8_QueueBounded ==
    Initialized =>
        /\ Len(state.urls_to_scrape) <= state.total_urls
        /\ state.total_urls = Len(state.initial_urls)

C8_Witness ==
    /\ event.key = "scraper"
    /\ Len(state.urls_to_scrape) < state.total_urls
    /\ state.urls_to_scrape # <<>>

\* C9: with the API key absent, load_settings fails and main returns: no
\* graph is built and no node runs.
C9_NoKeyNoRun ==
    env_key = Unset =>
        /\ graph = None
        /\ executed = <<>>
        /\ DOMAIN state = {}
        /\ pc \in {"load_settings", "returned"}

C9_Witness == env_key = Unset /\ pc = "returned"

\* C10: for a non-empty input list of N URLs, initialize_state returns
\* total_urls = N, urls_to_scrape and initial_urls equal to the list in
\* order, current_url_index = 0, null extracted_info and extracted_from_url
\* and is_information_found false.
C10_InitializeState ==
    (event.key = "initialize_state" /\ urls.t = "list" /\ urls.v # <<>>) =>
        /\ event.value.total_urls = Len(urls.v)
        /\ event.value.urls_to_scrape = urls.v
        /\ event.value.initial_urls = urls.v
        /\ event.value.current_url_index = 0
        /\ event.value.extracted_info = None
        /\ event.value.extracted_from_url = None
        /\ event.value.is_information_found = FALSE

C10_Witness ==
    /\ event.key = "initialize_state"
    /\ urls.t = "list"
    /\ Len(urls.v) = 3
    /\ urls.v[1] # urls.v[2]

----------------------------------------------------------------------------
(* The loop body on its own: scrape_manager, the node its edge picks,      *)
(* evaluate, from every State the head of the loop can hold: the initial   *)
(* State and the States that follow it by passes that found nothing        *)

Configs == {[openai_api_key |-> k] : k \in EnvKeys \ {Unset}}

InitialStates ==
    {Merge(<<>>, initialize_state(InputDict(u, k))) :
        u \in UrlInputs, k \in Keywords}

OutcomesFor(s, config) ==
    IF extractor_called(s, config) THEN ExtractorOutcomes ELSE {NotCalled}

\* the States one scraper pass that found nothing leads to
NotFoundPass(S, config) ==
    {t \in UNION {{Merge(s, scraper(s, config, out)) :
                        out \in OutcomesFor(s, config)} :
                  s \in {x \in S : x.urls_to_scrape # <<>>}} :
        ~t.is_information_found}

RECURSIVE LoopHeadStates(_, _)
LoopHeadStates(n, config) ==
    IF n = 0 THEN InitialStates
    ELSE LET P == LoopHeadStates(n - 1, config)
         IN  P \cup NotFoundPass(P, config)

InitLoopHead ==
    /\ pc = "stream"
    /\ env_key \in EnvKeys \ {Unset}
    /\ urls = EmptyList
    /\ keyword = ""
    /\ settings = load_settings(env_key)
    /\ graph = Some([interrupt_after |-> interrupt_after])
    /\ state \in LoopHeadStates(MaxUrls, settings[1])
    /\ event = NoEvent
    /\ extraction_tracker = [found_information |-> FALSE,
                             extracted_info |-> None,
                             source_url |-> None]
    /\ route = "continue_scraping"
    /\ next_node = "scrape_manager"
    /\ status = "running"
    /\ dispatched = <<>>
    /\ extractor = "not_called"
    /\ executed = <<>>
    /\ scraped = <<>>
    /\ report = None

NextLoopBody ==
    \/ ScrapeManager
    \/ Scraper
    \/ Evaluate
    \/ Report

SpecLoopBody == InitLoopHead /\ [][NextLoopBody]_vars

----------------------------------------------------------------------------
(* The reducers on their own: any update a node can return for the State,  *)
(* merged into it; the State is the initial one or one after a scraper run *)

MergeStates ==
    UNION {LoopHeadStates(0, c) \cup
              UNION {{Merge(s, scraper(s, c, out)) : out \in OutcomesFor(s, c)} :
                        s \in InitialStates} :
           c \in Configs}

\* the PartialStates the return paths of scraper and evaluate produce
NodeUpdates(s) ==
    {scraper(s, c, out) : c \in Configs, out \in ExtractorOutcomes}
        \cup {evaluate(s)}

InitMerge ==
    /\ pc = "merge"
    /\ env_key = "sk-test"
    /\ urls = EmptyList
    /\ keyword = ""
    /\ settings = None
    /\ graph = None
    /\ state \in MergeStates
    /\ event = NoEvent
    /\ extraction_tracker = [found_information |-> FALSE,
                             extracted_info |-> None,
                             source_url |-> None]
    /\ route = "none"
    /\ next_node = "none"
    /\ status = "running"
    /\ dispatched = <<>>
    /\ extractor = "not_called"
    /\ executed = <<>>
    /\ scraped = <<>>
    /\ report = None

\* one more writer: its update goes through the reducers
MergeUpdate ==
    /\ pc = "merge"
    /\ \E u \in NodeUpdates(state) :
          /\ state' = Merge(state, u)
          /\ event' = [key |-> "update", value |-> u]
    /\ pc' = "merged"
    /\ UNCHANGED <<env_key, urls, keyword, settings, graph,
                   extraction_tracker, route, next_node, status, dispatched,
                   extractor, executed, scraped, report>>

SpecMerge == InitMerge /\ [][MergeUpdate]_vars

----------------------------------------------------------------------------

C12_QueueConsumed ==
    [][(pc = "stream" /\ next_node = "scraper" /\ state.urls_to_scrape # <<>>)
          => state'.urls_to_scrape = Tail(state.urls_to_scrape)]_vars

\* C14: the State merged after scrape_manager equals the State before it, in
\* every field.
C14_ManagerKeepsState ==
    [][(pc = "stream" /\ next_node = "scrape_manager") => state' = state]_vars

C14_Witness ==
    /\ event.key = "scrape_manager"
    /\ Len(state.urls_to_scrape) >= 2

\* C15: evaluate runs only when every scraper instance dispatched for the
\* batch has returned, one per seed, and the State it reads holds their
\* merged outputs.
C15_JoinBarrier ==
    (next_node = "evaluate" \/ event.key = "evaluate") =>
        /\ Len(scraped) = Len(dispatched)
        /\ \A i \in DOMAIN scraped :
              scraped[i].extracted_from_url = Some(dispatched[i].url)
        /\ scraped # <<>> =>
              LET u == scraped[Len(scraped)]
              IN  /\ state.extracted_from_url = u.extracted_from_url
                  /\ state.extracted_info = u.extracted_info
                  /\ state.is_information_found = u.is_information_found

C15_Witness ==
    /\ event.key = "evaluate"
    /\ Len(dispatched) = 1
    /\ state.extracted_info # None

\* C17: evaluate returns the State's is_information_found, merging it leaves
\* the State as it was, and evaluate on the merged State returns the same.
C17_EvaluateIdempotent ==
    [][(pc = "stream" /\ next_node = "evaluate")
          => /\ event'.value.is_information_found = state.is_information_found
             /\ state' = state
             /\ evaluate(state').is_information_found
                   = event'.value.is_information_found]_vars

C17_Witness ==
    /\ event.key = "evaluate"
    /\ event.value.is_information_found
    /\ state.urls_to_scrape # <<>>

\* C18: when the State has is_information_found true, its extracted_from_url
\* and extracted_info are those returned by a scraper task that reported
\* found.
C18_FoundRecordFromFoundTask ==
    Found =>
        \E i \in FoundTasks :
            /\ state.extracted_from_url = scraped[i].extracted_from_url
            /\ state.extracted_info = scraped[i].extracted_info

C18_Witness ==
    /\ Found
    /\ Truthy(state.extracted_info)
    /\ report # None

\* the URLs the scraper instances of the run worked on, in order
ScrapedUrls == [i \in DOMAIN scraped |-> scraped[i].extracted_from_url]

\* C19: with a valid API key and no task reporting found, once the run has
\* stopped every URL of initial_urls has been scraped exactly once, in input
\* order.
C19_FullCoverage ==
    (report # None /\ settings[1].openai_api_key # "" /\ FoundTasks = {})
        => ScrapedUrls = [i \in DOMAIN state.initial_urls |->
                              Some(state.initial_urls[i])]

\* C13: when scrape_manager completes on an empty queue the node scheduled
\* next is evaluate and no scraper instance is dispatched; the scraper is
\* never scheduled on a State whose urls_to_scrape is empty.
C13_EmptyQueueRouting ==
    /\ (event.key = "scrape_manager" /\ state.urls_to_scrape = <<>>)
          => (next_node = "evaluate" /\ dispatched = <<>>)
    /\ next_node = "scraper" => state.urls_to_scrape # <<>>
    /\ (event.key = "scraper" /\ scraped # <<>>)
          => scraped[Len(scraped)].extracted_from_url # None

C13_Witness ==
    /\ executed = <<"scrape_manager", "evaluate">>
    /\ state.urls_to_scrape = <<>>

\* whether update u writes null to channel k
WritesNull(u, k) == k \in DOMAIN u /\ u[k] = None

\* C16: a write of null to extracted_info or extracted_from_url, once the
\* channel is non-null, leaves the channel with the value it had.
C16_FirstNonNullKept ==
    [][pc = "merge" =>
         /\ (state.extracted_info # None
                /\ WritesNull(event'.value, "extracted_info"))
               => state'.extracted_info = state.extracted_info
         /\ (state.extracted_from_url # None
                /\ WritesNull(event'.value, "extracted_from_url"))
               => state'.extracted_from_url = state.extracted_from_url]_vars

C16_Witness ==
    /\ pc = "merged"
    /\ WritesNull(event.value, "extracted_info")
    /\ WritesNull(event.value, "extracted_from_url")
    /\ state.extracted_info # None
    /\ state.extracted_from_url # None

====
